---- MODULE Spec2Model ----
(***************************************************************************)
(* A model of the reactor runtime core: the data-flow graph built during   *)
(* assembly (reactors/flowgraph.rs), the event loop and the reaction wave  *)
(* (runtime/scheduler.rs), and the port cells the tests exercise           *)
(* (test/test_ports.rs).                                                   *)
(***************************************************************************)
EXTENDS Integers, Sequences, FiniteSets, TLC

(***************************************************************************)
(* Bounds of the model.                                                    *)
(***************************************************************************)
\* the physical clock runs from 0 to MaxTime
MaxTime == 2
\* number of waves the event loop executes
MaxWaves == 2
\* number of events the producer thread sends through its SchedulerLink
MaxPhys == 1

(***************************************************************************)
(* Generic helpers.                                                        *)
(***************************************************************************)
Range(s) == {s[i] : i \in 1..Len(s)}

IndexOf(s, e) == CHOOSE i \in 1..Len(s) : s[i] = e

Max2(a, b) == IF a >= b THEN a ELSE b

\* the sequences over S, without repetition, of any length
RECURSIVE Arrangements(_)
Arrangements(S) ==
    {<<>>} \cup UNION {{<<x>> \o t : t \in Arrangements(S \ {x})} : x \in S}

(***************************************************************************)
(* Identifiers of the modelled programs.  Reactions, ports and actions are *)
(* named by strings; a FlowGraphElement is a reaction id or a port id.     *)
(***************************************************************************)
ReactionIds == {"A", "B", "C", "D"}

PortIds == {"P", "P2", "Q1", "Q2"}

IsReactionElt(e) == e \in ReactionIds

IsPortElt(e) == e \in PortIds

(***************************************************************************)
(* GraphWrapper: a directed graph whose nodes are numbered in the order    *)
(* get_node first meets them.  nodes[i] is the weight of the node with     *)
(* NodeIndex i-1; edges are pairs of node numbers.                         *)
(***************************************************************************)
EmptyGraph == [nodes |-> <<>>, edges |-> {}]

GetNode(g, elt) ==
    IF elt \in Range(g.nodes) THEN g ELSE [g EXCEPT !.nodes = Append(@, elt)]

GraphId(g, elt) == IndexOf(g.nodes, elt)

\* add_dependency(from, to, kind): Affects adds from -> to, Use adds to -> from
AddDependency(g, from, to, kind) ==
    LET g1 == GetNode(g, from)
        g2 == GetNode(g1, to)
        rid == GraphId(g2, from)
        pid == GraphId(g2, to)
    IN  [g2 EXCEPT !.edges = @ \cup {IF kind = "Affects" THEN <<rid, pid>>
                                                         ELSE <<pid, rid>>}]

\* a check that finds no incoming edge
SeesNoIncoming(g, n) == FALSE

HasIncoming(g, n) == \E e \in g.edges : e[2] = n

\* add_port_dependency: both nodes are created, then the binding is refused
\* when the downstream node already has an incoming edge
AddPortDependency(g, up, down) ==
    LET g1 == GetNode(g, up)
        g2 == GetNode(g1, down)
        up_id == GraphId(g2, up)
        down_id == GraphId(g2, down)
    IN  IF HasIncoming(g2, down_id)
        THEN [ok |-> FALSE, graph |-> g2]
        ELSE [ok |-> TRUE, graph |-> [g2 EXCEPT !.edges = @ \cup {<<up_id, down_id>>}]]

AddDataDependency(g, reaction, port, kind) == AddDependency(g, reaction, port, kind)

\* add_reactions: a priority link for each pair of consecutive reactions
RECURSIVE AddReactions(_, _)
AddReactions(g, ids) ==
    IF Len(ids) < 2 THEN g
    ELSE AddReactions(AddDependency(g, ids[1], ids[2], "Use"), Tail(ids))

Successors(g, S) == {e[2] : e \in {x \in g.edges : x[1] \in S}}

\* the nodes reachable from the nodes of S by a path of any length
RECURSIVE ReachFrom(_, _)
ReachFrom(g, S) ==
    LET T == S \cup Successors(g, S)
    IN  IF T = S THEN S ELSE ReachFrom(g, T)

\* petgraph::algo::has_path_connecting
HasPathConnecting(g, from, to) == to \in ReachFrom(g, {from})

\* the nodes that lie on a cycle
CycleNodes(g) ==
    {n \in 1..Len(g.nodes) : n \in ReachFrom(g, Successors(g, {n}))}

\* the orders of the nodes of S in which every edge goes forward
RECURSIVE TopoOrders(_, _)
TopoOrders(g, S) ==
    IF S = {} THEN {<<>>}
    ELSE UNION {{<<n>> \o t : t \in TopoOrders(g, S \ {n})} :
                   n \in {m \in S : ~\E e \in g.edges : e[2] = m /\ e[1] \in S}}

\* toposorted: petgraph::algo::toposort gives a topological order of the
\* node indices, or a node of a cycle, which is reported as CyclicDependency
Toposorted(g) ==
    IF CycleNodes(g) # {}
    THEN {[ok |-> FALSE, err |-> "CyclicDependency", node |-> g.nodes[n]] : n \in CycleNodes(g)}
    ELSE {[ok |-> TRUE, sorted |-> s] : s \in TopoOrders(g, 1..Len(g.nodes))}

\* the reactions pushed for the port node idx: the followers are read from
\* sorted[idx.index()..], the slice that starts at the node's own number
PortDescendants(g, sorted, idx) ==
    LET followers == SubSeq(sorted, idx, Len(sorted))
        Keep(f) == IsReactionElt(g.nodes[f]) /\ HasPathConnecting(g, idx, f)
        kept == SelectSeq(followers, Keep)
    IN  [i \in 1..Len(kept) |-> g.nodes[kept[i]]]

\* consume_to_schedulable: reactions_by_port_id of the Schedulable
ReactionsByPortId(g, sorted) ==
    [p \in {e \in Range(g.nodes) : IsPortElt(e)} |->
        PortDescendants(g, sorted, GraphId(g, p))]

(***************************************************************************)
(* Logical time.  A tag is an instant of the physical clock and a          *)
(* microstep, ordered lexicographically.                                   *)
(***************************************************************************)
Tag(i, m) == [instant |-> i, microstep |-> m]

TagLT(a, b) ==
    \/ a.instant < b.instant
    \/ a.instant = b.instant /\ a.microstep < b.microstep

TagLE(a, b) == a = b \/ TagLT(a, b)

\* LogicalTime::now(): the clock's reading, at microstep 0
LogicalTimeNow(clock) == Tag(clock, 0)

(***************************************************************************)
(* The programs the scheduler is run on.  Every reaction lives in a        *)
(* reactor of its own, so add_reactions adds no priority link.  A program  *)
(* declares its data dependencies in some order (which numbers the nodes   *)
(* of the data-flow graph), the reactions each action triggers and the     *)
(* actions each reaction schedules.                                        *)
(*   diamond     A -> P -> {B, C},  B -> Q1 -> D,  C -> Q2 -> D            *)
(*   diamondRev  the same graph, declared from D back to A                 *)
(*   fork        A -> P -> B -> Q1 -> C  and  A -> P2 -> C                 *)
(*   both        A -> P -> B, and the action triggers A and B              *)
(*   undeclared  as both; the body of B does what B did not declare        *)
(*   timer       as both; action t triggers A; the actions ph and z, a      *)
(*               logical action without delay that A schedules, trigger B;  *)
(*               schedule is called with an additional delay                *)
(***************************************************************************)
Programs == {"diamond", "diamondRev", "fork", "both"}

Declarations(pr) ==
    CASE pr = "diamond" ->
           << <<"A", "P", "Affects">>, <<"B", "P", "Use">>, <<"B", "Q1", "Affects">>,
              <<"C", "P", "Use">>, <<"C", "Q2", "Affects">>,
              <<"D", "Q1", "Use">>, <<"D", "Q2", "Use">> >>
      [] pr = "diamondRev" ->
           << <<"D", "Q1", "Use">>, <<"D", "Q2", "Use">>, <<"B", "Q1", "Affects">>,
              <<"B", "P", "Use">>, <<"C", "Q2", "Affects">>, <<"C", "P", "Use">>,
              <<"A", "P", "Affects">> >>
      [] pr = "fork" ->
           << <<"A", "P", "Affects">>, <<"A", "P2", "Affects">>, <<"B", "P", "Use">>,
              <<"B", "Q1", "Affects">>, <<"C", "Q1", "Use">>, <<"C", "P2", "Use">> >>
      [] OTHER ->
           << <<"A", "P", "Affects">>, <<"B", "P", "Use">> >>

RECURSIVE Declare(_, _)
Declare(g, ds) ==
    IF ds = <<>> THEN g
    ELSE Declare(AddDataDependency(g, ds[1][1], ds[1][2], ds[1][3]), Tail(ds))

ProgramGraph(pr) == Declare(EmptyGraph, Declarations(pr))

\* the ports a reaction declared with reaction_affects
AffectedPorts(pr, r) ==
    {d[2] : d \in {x \in Range(Declarations(pr)) : x[1] = r /\ x[3] = "Affects"}}

\* the ports a reaction declared with reaction_uses
UsedPorts(pr, r) ==
    {d[2] : d \in {x \in Range(Declarations(pr)) : x[1] = r /\ x[3] = "Use"}}

ActionIds == {"t", "ph"}

\* Action: min_delay and is_logical; "t" is logical, "ph" is physical
MinDelay(a) == IF a = "t" THEN 1 ELSE 0

IsLogical(a) == a # "ph"

\* action.downstream.reactions, as set_downstream recorded them
ActionDownstream(pr, a) ==
    IF pr \in {"both", "undeclared"} THEN <<"A", "B">>
    ELSE IF pr = "timer" /\ a # "t" THEN <<"B">>
    ELSE <<"A">>

\* the logical actions a reaction may schedule
SchedulableActions(r) == IF r = "A" THEN {"t"} ELSE {}

\* the ports the body of a reaction sets: those it declared; in program
\* "undeclared", whose declarations are those of "both", reaction B also sets
\* port Q1
BodySets(pr, r) ==
    IF pr = "undeclared" /\ r = "B" THEN {"Q1"} ELSE AffectedPorts(pr, r)

\* the actions the body of a reaction schedules: those it declared; in
\* program "undeclared" reaction B also schedules t
BodySchedules(pr, r) ==
    IF pr = "undeclared" /\ r = "B" THEN {"t"}
    ELSE IF pr = "timer" /\ r = "A" THEN {"t", "z"}
    ELSE SchedulableActions(r)

\* the largest additional delay a call of schedule is given
MaxOffset == 1

\* the additional delays the calls of schedule are given: none, but in
\* program "timer"
Offsets(pr) == IF pr = "timer" THEN 0..MaxOffset ELSE {0}

\* the reactors started by the startup closure, in the order it starts them
StartupOrder == <<"S1", "S2">>

\* the shutdown reactions of the reactors
ShutdownReactions == <<"Z">>

\* what a reactor's startup reaction may do: S1 schedules t, S2 writes P
StartupSchedules(s) == IF s = "S1" THEN {"t"} ELSE {}

StartupAffects(s) == IF s = "S2" THEN {"P"} ELSE {}

(***************************************************************************)
(* Port cells and option values.                                           *)
(***************************************************************************)
None == <<>>

Some(v) == <<v>>

VARIABLES
    prog,                   \* the program assembled
    reactions_by_port_id,   \* Schedulable::reactions_by_port_id
    now,                    \* Instant::now(), the physical clock
    pc,                     \* where the scheduler thread is
    cur_logical_time,       \* SyncScheduler::cur_logical_time
    initial_time,           \* SyncScheduler::initial_time
    queue,                  \* SyncScheduler::queue
    chan,                   \* the channel from the Senders to receiver
    event,                  \* the event step() was called with
    wave,                   \* the ReactionWave in existence
    deadline,               \* when the pending recv_timeout gives up
    nstarted,               \* reactors the startup closure has started
    cellVal,                \* the value each port holds
    ppc,                    \* where the producer thread is
    ptime,                  \* the logical time the producer read
    nphys,                  \* history: events the producer has sent
    physPending,            \* history: tags of the events the producer sent that
                            \* were later than the current tag and have had no wave
    waveLog,                \* history: the event tag and the tag of each wave
    fired,                  \* history: the reactions fired in this wave
    wrote,                  \* history: the ports set and actions scheduled in this wave
    startLog,               \* history: the startup reactions run, with their tag
    scheduled               \* history: the calls of schedule and schedule_physical
                            \* made since the last wave began

\* the assembly of a data-flow graph
VARIABLES
    dataflow,               \* FlowGraph::dataflow
    triggers,               \* FlowGraph::triggers
    declared,               \* history: the dependencies as they were declared
    ndecl,                  \* history: the number of declarations made
    result                  \* what consume_to_schedulable returned

\* the ports of the port tests
VARIABLES
    cellOf,                 \* the cell each port reads and writes
    cell,                   \* the value each cell holds
    status,                 \* the bind status of each port
    panicked,               \* whether a call has panicked
    upOf,                   \* history: the upstream each port was bound to
    setLog,                 \* history: the values set through each port
    deps,                   \* the downstream dependencies each cell holds
    lastBind                \* history: the ports of the last bind_ports call

\* the assemblers of a reactor tree while it is assembled
VARIABLES
    local_names,            \* Assembler::local_names of each live assembler
    stack,                  \* the ids of the assemblers whose assemble is running
    raised,                 \* the AssemblyError being returned, if any
    obtained,               \* history: the sub-reactors their parents obtained
    lastCall                \* history: the last call made on an assembler

\* a component id being allocated
VARIABLES
    gid,                    \* GlobalId::_raw of the id the calls are made on
    idOut                   \* history: the last call on the id and what it returned

rtVars == <<prog, reactions_by_port_id, now, pc, cur_logical_time, initial_time,
            queue, chan, event, wave, deadline, nstarted, cellVal, ppc, ptime,
            nphys, physPending, waveLog, fired, wrote, startLog, scheduled>>

graphVars == <<dataflow, triggers, declared, ndecl, result>>

portVars == <<cellOf, cell, status, panicked, upOf, setLog, deps, lastBind>>

asmVars == <<local_names, stack, raised, obtained, lastCall>>

idVars == <<gid, idOut>>

vars == <<rtVars, graphVars, portVars, asmVars, idVars>>

progVars == <<prog, reactions_by_port_id>>

\* what the actions of the scheduler leave alone
otherVars == <<progVars, graphVars, portVars, asmVars, idVars>>

prodVars == <<ppc, ptime, nphys, physPending>>

histVars == <<waveLog, fired, wrote, startLog, scheduled>>

NoWave == [logical_time |-> Tag(0, 0), todo |-> <<>>, done |-> {}, live |-> FALSE]

NoEvent == [process_at |-> Tag(0, 0), todo |-> <<>>]

\* how long recv_timeout waits (launch_async's timeout)
Timeout == 1

(***************************************************************************)
(* Action::make_eta: the tag of a scheduled event.                         *)
(***************************************************************************)
\* a make_eta that leaves a physical action's instant behind the clock
MakeEtaUnraised(a, time, additional, clock) ==
    LET instant == time.instant + MinDelay(a) + additional
    IN  Tag(instant, IF instant = time.instant THEN time.microstep + 1 ELSE 0)

\* a make_eta that starts every tag at microstep 0
MakeEtaAtMicrostepZero(a, time, additional, clock) ==
    LET eta == time.instant + MinDelay(a) + additional
    IN  Tag(IF IsLogical(a) THEN eta ELSE Max2(eta, clock), 0)

MakeEta(a, time, additional, clock) ==
    LET eta == time.instant + MinDelay(a) + additional
        instant == IF IsLogical(a) THEN eta ELSE Max2(eta, clock)
    IN  Tag(instant, IF instant = time.instant THEN time.microstep + 1 ELSE 0)

(***************************************************************************)
(* ReactionWave.                                                           *)
(***************************************************************************)
\* new_wave: the todo list is the event's reactions, the done set is empty
NewWave(logical_time, reactions) ==
    [logical_time |-> logical_time, todo |-> reactions, done |-> {}, live |-> TRUE]

\* enqueue_now: append the reactions not yet in done, and mark them
RECURSIVE EnqueueNow(_, _)
EnqueueNow(w, downstream) ==
    IF downstream = <<>> THEN w
    ELSE LET rid == Head(downstream)
             w1 == IF rid \notin w.done
                   THEN [w EXCEPT !.done = @ \cup {rid}, !.todo = Append(@, rid)]
                   ELSE w
         IN  EnqueueNow(w1, Tail(downstream))

\* Port::set returns the downstream dependencies of the port
Dependencies(rbp, p) == IF p \in DOMAIN rbp THEN rbp[p] ELSE <<>>

\* LogicalCtx::set on each port of ports, in order
RECURSIVE CtxSetAll(_, _, _)
CtxSetAll(w, rbp, ports) ==
    IF ports = <<>> THEN w
    ELSE CtxSetAll(EnqueueNow(w, Dependencies(rbp, Head(ports))), rbp, Tail(ports))

\* the value a reaction body writes: the number of the wave it runs in (0 for
\* the startup wave), so that a value tells which wave wrote it
WrittenValue(log) == Len(log)

\* the port values after writing v to each port of ports
WriteAll(cv, ports, v) == [p \in DOMAIN cv |-> IF p \in Range(ports) THEN Some(v) ELSE cv[p]]

\* the event schedule_impl and schedule_physical make: the tag is make_eta's,
\* the reactions are action.downstream
ScheduledEvent(pr, a, time, offset, clock) ==
    [process_at |-> MakeEta(a, time, offset, clock), todo |-> ActionDownstream(pr, a)]

\* enqueue_later for each action of acts: the events sent on the channel
RECURSIVE ScheduleAll(_, _, _, _)
ScheduleAll(pr, time, acts, offset) ==
    IF acts = <<>> THEN <<>>
    ELSE <<ScheduledEvent(pr, Head(acts), time, offset, 0)>>
         \o ScheduleAll(pr, time, Tail(acts), offset)

\* history: a call of schedule or schedule_physical, and the event it sent
ScheduleCall(a, time, offset, clock, evt) ==
    [action |-> a, time |-> time, offset |-> offset, clock |-> clock, evt |-> evt]

\* history: the calls ScheduleAll stands for
ScheduleCalls(pr, time, acts, offset) ==
    {ScheduleCall(acts[i], time, offset, 0, ScheduledEvent(pr, acts[i], time, offset, 0)) :
        i \in 1..Len(acts)}

\* a schedule that pushes the events on the queue itself
SendIntoQueue(ch, q, evts) == [chan |-> ch, queue |-> q \cup Range(evts)]

\* Sender::send of events evts: they go on the channel, the queue is the
\* receiving thread's
Send(ch, q, evts) == [chan |-> ch \o evts, queue |-> q]

\* the bodies a reaction may run: the ports it sets, in order, and the
\* actions it schedules (only tags the clock of the model can reach)
Bodies(affects, schedules, offsets, time) ==
    UNION {{[sets |-> s, scheds |-> a, offset |-> d] :
                s \in Arrangements(affects),
                a \in {x \in Arrangements(schedules) :
                          \A i \in 1..Len(x) :
                              MakeEta(x[i], time, d, 0).instant <= MaxTime}} :
           d \in offsets}

(***************************************************************************)
(* The initial state: a scheduler just built by SyncScheduler::new for a   *)
(* program whose Schedulable was computed by consume_to_schedulable.       *)
(***************************************************************************)
RtInit(programs) ==
    /\ prog \in programs
    /\ \E r \in Toposorted(ProgramGraph(prog)) :
          /\ r.ok
          /\ reactions_by_port_id = ReactionsByPortId(ProgramGraph(prog), r.sorted)
    /\ now = 0
    /\ pc = "new"
    /\ cur_logical_time = LogicalTimeNow(0)
    /\ initial_time = None
    /\ queue = {}
    /\ chan = <<>>
    /\ event = NoEvent
    /\ wave = NoWave
    /\ deadline = 0
    /\ nstarted = 0
    /\ cellVal = [p \in PortIds |-> None]
    /\ ppc = "idle"
    /\ ptime = Tag(0, 0)
    /\ nphys = 0
    /\ physPending = {}
    /\ waveLog = <<>>
    /\ fired = <<>>
    /\ wrote = {}
    /\ startLog = <<>>
    /\ scheduled = {}

\* no graph is being assembled
GraphIdle ==
    /\ dataflow = EmptyGraph
    /\ triggers = EmptyGraph
    /\ declared = {}
    /\ ndecl = 0
    /\ result = None

\* no port test is running
PortsIdle ==
    /\ cellOf = <<>>
    /\ cell = <<>>
    /\ status = <<>>
    /\ panicked = FALSE
    /\ upOf = <<>>
    /\ setLog = <<>>
    /\ deps = <<>>
    /\ lastBind = None

\* no reactor tree is being assembled
AsmIdle ==
    /\ local_names = <<>>
    /\ stack = <<>>
    /\ raised = None
    /\ obtained = {}
    /\ lastCall = None

\* no id is being allocated
IdsIdle ==
    /\ gid = 0
    /\ idOut = None

Init == RtInit(Programs) /\ GraphIdle /\ PortsIdle /\ AsmIdle /\ IdsIdle

\* the physical clock advances
Tick ==
    /\ now < MaxTime
    /\ now' = now + 1
    /\ UNCHANGED <<otherVars, pc, cur_logical_time, initial_time, queue, chan, event,
                   wave, deadline, nstarted, cellVal, prodVars, histVars>>

\* a startup wave made at the time the scheduler published last
StartupWaveAtPublishedTime(time) == NewWave(cur_logical_time, <<>>)

\* startup's wave: new_wave(initial_time, vec![])
StartupWave(time) == NewWave(time, <<>>)

\* SyncScheduler::startup: fix the origin of the logical timeline and make
\* the startup wave
Startup ==
    /\ pc = "new"
    /\ initial_time' = Some(LogicalTimeNow(now))
    /\ wave' = StartupWave(LogicalTimeNow(now))
    /\ pc' = "startup"
    /\ UNCHANGED <<otherVars, now, cur_logical_time, queue, chan, event, deadline,
                   nstarted, cellVal, prodVars, histVars>>

\* StartupCtx::start: run the startup reaction of the next reactor in a
\* context of the startup wave
StartupCtxStart ==
    /\ pc = "startup"
    /\ nstarted < Len(StartupOrder)
    /\ LET s == StartupOrder[nstarted + 1] IN
       \E b \in Bodies(StartupAffects(s), StartupSchedules(s), Offsets(prog),
                       wave.logical_time) :
          LET sent == Send(chan, queue,
                           ScheduleAll(prog, wave.logical_time, b.scheds, b.offset))
          IN  /\ wave' = CtxSetAll(wave, reactions_by_port_id, b.sets)
              /\ cellVal' = WriteAll(cellVal, b.sets, WrittenValue(waveLog))
              /\ chan' = sent.chan
              /\ queue' = sent.queue
              /\ scheduled' = scheduled \cup
                      ScheduleCalls(prog, wave.logical_time, b.scheds, b.offset)
              /\ startLog' = Append(startLog, [reaction |-> s, tag |-> wave.logical_time])
    /\ nstarted' = nstarted + 1
    /\ UNCHANGED <<otherVars, now, pc, cur_logical_time, initial_time, event,
                   deadline, prodVars, waveLog, fired, wrote>>

\* launch_async: the startup closure has returned (its wave is dropped, with
\* what its todo list holds) and the event loop starts
LaunchAsync ==
    /\ pc = "startup"
    /\ nstarted = Len(StartupOrder)
    /\ wave' = [wave EXCEPT !.live = FALSE]
    /\ pc' = "flush"
    /\ UNCHANGED <<otherVars, now, cur_logical_time, initial_time, queue, chan, event,
                   deadline, nstarted, cellVal, prodVars, histVars>>

\* push_event; the queue holds an event once (PriorityQueue keys are unique)
PushEvent(q, evt) == q \cup {evt}

\* the loop's first step: flush pending events, this doesn't block
Flush ==
    /\ pc = "flush"
    /\ queue' = queue \cup Range(chan)
    /\ chan' = <<>>
    /\ pc' = "pop"
    /\ UNCHANGED <<otherVars, now, cur_logical_time, initial_time, event, wave,
                   deadline, nstarted, cellVal, prodVars, histVars>>

\* the events queue.pop() may return: those of the smallest process_at
Earliest(q) == {e \in q : \A f \in q : ~TagLT(f.process_at, e.process_at)}

\* a catch-up that keeps the event's own tag
CatchUpKeepsEventTag(up_to_time, clock) == up_to_time

\* catch_up_physical_time, when the clock has reached the event's instant
CatchUpNoSleep(up_to_time, clock) == Tag(clock, 0)

\* catch_up_physical_time, after sleeping until the event's instant
CatchUpSlept(up_to_time, clock) == LogicalTimeNow(clock)

\* step, once the wave's time is known: publish it and make the wave
BeginWave(evt, time) ==
    /\ cur_logical_time' = time
    /\ wave' = NewWave(time, evt.todo)
    /\ waveLog' = Append(waveLog, [process_at |-> evt.process_at, time |-> time,
                                   clock |-> now, todo |-> evt.todo])
    /\ physPending' = physPending \ {evt.process_at}
    /\ fired' = <<>>
    /\ wrote' = {}
    /\ scheduled' = {}
    /\ pc' = "wave"

\* a catch-up that never sleeps
NeverSleeps(up_to_time, clock) == FALSE

\* catch_up_physical_time: now < up_to_time.instant
MustSleep(up_to_time, clock) == clock < up_to_time.instant

\* queue.pop() and step(evt): the wave starts at once, or the thread sleeps
PopStep ==
    /\ pc = "pop"
    /\ queue # {}
    /\ Len(waveLog) < MaxWaves
    /\ \E evt \in Earliest(queue) :
          /\ queue' = queue \ {evt}
          /\ event' = evt
          /\ IF MustSleep(evt.process_at, now)
             THEN /\ pc' = "sleep"
                  /\ UNCHANGED <<cur_logical_time, wave, waveLog, fired, wrote,
                                 physPending, scheduled>>
             ELSE BeginWave(evt, CatchUpNoSleep(evt.process_at, now))
    /\ UNCHANGED <<otherVars, now, initial_time, chan, deadline, nstarted, cellVal,
                   ppc, ptime, nphys, startLog>>

\* the sleep of catch_up_physical_time is over
Wake ==
    /\ pc = "sleep"
    /\ now >= event.process_at.instant
    /\ BeginWave(event, CatchUpSlept(event.process_at, now))
    /\ UNCHANGED <<otherVars, now, initial_time, queue, chan, event, deadline,
                   nstarted, cellVal, ppc, ptime, nphys, startLog>>

\* consume: pop the front reaction and fire it
Fire ==
    /\ pc = "wave"
    /\ wave.todo # <<>>
    /\ LET r == Head(wave.todo)
           w == [wave EXCEPT !.todo = Tail(@)]
           sent(b) == Send(chan, queue,
                           ScheduleAll(prog, wave.logical_time, b.scheds, b.offset))
       IN  \E b \in Bodies(BodySets(prog, r), BodySchedules(prog, r), Offsets(prog),
                           wave.logical_time) :
              /\ wave' = CtxSetAll(w, reactions_by_port_id, b.sets)
              /\ cellVal' = WriteAll(cellVal, b.sets, WrittenValue(waveLog))
              /\ chan' = sent(b).chan
              /\ queue' = sent(b).queue
              /\ scheduled' = scheduled \cup
                      ScheduleCalls(prog, wave.logical_time, b.scheds, b.offset)
              /\ fired' = Append(fired, r)
              /\ wrote' = wrote \cup Range(b.sets) \cup Range(b.scheds)
    /\ UNCHANGED <<otherVars, now, pc, cur_logical_time, initial_time, event,
                   deadline, nstarted, prodVars, waveLog, startLog>>

\* consume returns: the todo list is empty and the wave is dropped
WaveEnd ==
    /\ pc = "wave"
    /\ wave.todo = <<>>
    /\ wave' = NoWave
    /\ event' = NoEvent
    /\ fired' = <<>>
    /\ wrote' = {}
    /\ pc' = "flush"
    /\ UNCHANGED <<otherVars, now, cur_logical_time, initial_time, queue, chan,
                   deadline, nstarted, cellVal, prodVars, waveLog, startLog, scheduled>>

\* a loop that goes to recv_timeout whatever the queue holds
PopNoneAlways(q) == TRUE

\* queue.pop() returns None
PopNone(q) == q = {}

\* the queue is empty: block in recv_timeout
RecvBlock ==
    /\ pc = "pop"
    /\ PopNone(queue)
    /\ deadline' = now + Timeout
    /\ pc' = "recv"
    /\ UNCHANGED <<otherVars, now, cur_logical_time, initial_time, queue, chan, event,
                   wave, nstarted, cellVal, prodVars, histVars>>

\* recv_timeout returns an event: push it and continue
RecvEvent ==
    /\ pc = "recv"
    /\ chan # <<>>
    /\ queue' = PushEvent(queue, Head(chan))
    /\ chan' = Tail(chan)
    /\ deadline' = 0
    /\ pc' = "flush"
    /\ UNCHANGED <<otherVars, now, cur_logical_time, initial_time, event, wave,
                   nstarted, cellVal, prodVars, histVars>>

\* a recv_timeout that waits for ever
NeverTimesOut(dl, clock) == FALSE

\* recv_timeout(timeout): the timeout has elapsed
TimedOut(dl, clock) == clock >= dl

\* recv_timeout times out: the loop breaks
RecvTimeout ==
    /\ pc = "recv"
    /\ chan = <<>>
    /\ TimedOut(deadline, now)
    /\ deadline' = 0
    /\ pc' = "exit"
    /\ UNCHANGED <<otherVars, now, cur_logical_time, initial_time, queue, chan, event,
                   wave, nstarted, cellVal, prodVars, histVars>>

\* schedule_physical, first half: read the time of the logical subsystem
PhysRead ==
    /\ ppc = "idle"
    /\ nphys < MaxPhys
    /\ ptime' = cur_logical_time
    /\ ppc' = "read"
    /\ UNCHANGED <<otherVars, now, pc, cur_logical_time, initial_time, queue, chan,
                   event, wave, deadline, nstarted, cellVal, nphys, physPending, histVars>>

\* the loop has broken: the assertion on the queue, then the thread ends
\* and the scheduler is dropped with its receiver
ThreadEnd ==
    /\ pc = "exit"
    /\ pc' = IF queue = {} THEN "done" ELSE "panicked"
    /\ UNCHANGED <<otherVars, now, cur_logical_time, initial_time, queue, chan, event,
                   wave, deadline, nstarted, cellVal, prodVars, histVars>>

\* whether the receiver of the channel still exists
ReceiverAlive(at) == at \notin {"done", "panicked"}

\* schedule_physical, second half: compute the tag and send the event;
\* send fails once the receiver is dropped, and the unwrap panics
PhysSend ==
    /\ ppc = "read"
    /\ \E offset \in Offsets(prog) :
          LET evt == ScheduledEvent(prog, "ph", ptime, offset, now)
              sent == Send(chan, queue, <<evt>>)
          IN  /\ evt.process_at.instant <= MaxTime
              /\ scheduled' = scheduled \cup {ScheduleCall("ph", ptime, offset, now, evt)}
              /\ IF ReceiverAlive(pc)
                 THEN /\ chan' = sent.chan
                      /\ queue' = sent.queue
                      /\ physPending' = IF TagLT(cur_logical_time, evt.process_at)
                                        THEN physPending \cup {evt.process_at}
                                        ELSE physPending
                      /\ ppc' = "idle"
                 ELSE /\ ppc' = "panicked"
                      /\ UNCHANGED <<chan, queue, physPending>>
    /\ nphys' = nphys + 1
    /\ ptime' = Tag(0, 0)
    /\ UNCHANGED <<otherVars, now, pc, cur_logical_time, initial_time, event,
                   wave, deadline, nstarted, cellVal, waveLog, fired, wrote, startLog>>

Next ==
    \/ Tick
    \/ Startup
    \/ StartupCtxStart
    \/ LaunchAsync
    \/ Flush
    \/ PopStep
    \/ Wake
    \/ Fire
    \/ WaveEnd
    \/ RecvBlock
    \/ RecvEvent
    \/ RecvTimeout
    \/ ThreadEnd
    \/ PhysRead
    \/ PhysSend

Spec == Init /\ [][Next]_vars

\* the scheduler thread runs while it can, and the clock advances
SchedulerStep ==
    \/ Startup
    \/ StartupCtxStart
    \/ LaunchAsync
    \/ Flush
    \/ PopStep
    \/ Wake
    \/ Fire
    \/ WaveEnd
    \/ RecvBlock
    \/ RecvEvent
    \/ RecvTimeout
    \/ ThreadEnd

FairSpec == Spec /\ WF_vars(SchedulerStep) /\ WF_vars(Tick) /\ WF_vars(PhysSend)

\* the same for the one program in which an action triggers two reactions
InitOne == RtInit({"both"}) /\ GraphIdle /\ PortsIdle /\ AsmIdle /\ IdsIdle

FairSpecOne ==
    InitOne /\ [][Next]_vars
            /\ WF_vars(SchedulerStep) /\ WF_vars(Tick) /\ WF_vars(PhysSend)

(***************************************************************************)
(* Properties of the scheduler.                                            *)
(***************************************************************************)
\* the data-flow graph has an edge from reaction r to a port that s uses
FlowsTo(pr, r, s) == AffectedPorts(pr, r) \cap UsedPorts(pr, s) # {}

Occurrences(seq, x) == Cardinality({i \in 1..Len(seq) : seq[i] = x})

\* the tag of wave k; wave 0 is the startup wave
WaveTime(k) == IF k = 0 THEN initial_time[1] ELSE waveLog[k].time

\* LogicalCtx::get
CtxGet(p) == cellVal[p]

\* C1: of two events whose waves were executed, the one with the smaller tag
\* was executed first (waves run one after the other, so an event executed
\* later never has a tag smaller than one executed before it).
C1_EventsExecuteInTagOrder ==
    \A i, j \in 1..Len(waveLog) :
        i < j => ~TagLT(waveLog[j].process_at, waveLog[i].process_at)

\* C2: within a wave, a reaction that feeds a port another reaction uses
\* never fires after that reaction.
C2_TopologicalFiring ==
    \A i, j \in 1..Len(fired) : i < j => ~FlowsTo(prog, fired[j], fired[i])

\* C3: within a wave no reaction fires twice.
C3_AtMostOncePerWave == \A r \in ReactionIds : Occurrences(fired, r) <= 1

\* C4: the tags at which waves execute never decrease, the startup wave
\* included, and cur_logical_time holds the tag of the latest wave.
C4_TagMonotonicity ==
    /\ \A i, j \in 0..Len(waveLog) :
          (i < j /\ initial_time # None) => TagLE(WaveTime(i), WaveTime(j))
    /\ waveLog # <<>> => cur_logical_time = waveLog[Len(waveLog)].time

\* C4, witness: two waves at different tags, the second one for an event
\* whose own tag is the smaller one
C4_Witness ==
    /\ Len(waveLog) = 2
    /\ TagLT(waveLog[1].time, waveLog[2].time)
    /\ TagLT(waveLog[2].process_at, waveLog[1].process_at)

\* C5: in a run without physical actions, every wave executes at the tag of
\* its event: the wave's tag is fixed by the scheduled tags alone, whatever
\* the clock reads during the run.
C5_WaveTagIsEventTag ==
    (nphys = 0 /\ ppc = "idle") =>
        \A i \in 1..Len(waveLog) : waveLog[i].time = waveLog[i].process_at

\* C7: in a wave, a port that this wave has not written does not hold a
\* value written by a wave of an earlier tag.
C7_ValueTransience ==
    pc = "wave" =>
        \A p \in PortIds :
            (p \notin wrote /\ CtxGet(p) # None)
                => ~TagLT(WaveTime(CtxGet(p)[1]), wave.logical_time)

\* C8: in the diamond, in a wave in which A has written P, D fires only
\* after B and C, never twice, and has fired once when the wave ends.
C8_DiamondFiresOnceAfterBoth ==
    (prog \in {"diamond", "diamondRev"} /\ pc = "wave" /\ "P" \in wrote) =>
        /\ Occurrences(fired, "D") <= 1
        /\ "D" \in Range(fired) =>
              /\ {"B", "C"} \subseteq Range(fired)
              /\ IndexOf(fired, "B") < IndexOf(fired, "D")
              /\ IndexOf(fired, "C") < IndexOf(fired, "D")
        /\ wave.todo = <<>> => Occurrences(fired, "D") = 1

\* every startup reaction that ran did so at initial_tag, microstep 0 of an
\* instant the clock has reached; each runs once, all of them by the time
\* the event loop starts; no wave runs before that
C10_StartupInv ==
    /\ \A i \in 1..Len(startLog) :
          /\ initial_time # None
          /\ startLog[i].tag = initial_time[1]
          /\ startLog[i].tag.microstep = 0
          /\ startLog[i].tag.instant <= now
    /\ \A s \in Range(StartupOrder) :
          Occurrences([i \in 1..Len(startLog) |-> startLog[i].reaction], s)
              = IF pc \in {"new", "startup"} THEN (IF s \in Range(SubSeq(StartupOrder, 1, nstarted)) THEN 1 ELSE 0)
                ELSE 1
    /\ waveLog # <<>> => Len(startLog) = Len(StartupOrder)

\* C10: the startup reactions fire exactly once each, at initial_tag =
\* (the clock's reading at startup, microstep 0), before the reactions of
\* any event.
C10_StartupOnceAtInitialTag ==
    /\ []C10_StartupInv
    /\ [][(pc = "new" /\ pc' = "startup") => initial_time' = Some(Tag(now, 0))]_vars

\* C10, witness: a reaction has fired in a wave after both startup
\* reactions ran at an initial tag later than the scheduler's construction
C10_Witness ==
    /\ pc = "wave"
    /\ fired # <<>>
    /\ Len(startLog) = 2
    /\ startLog[1].tag.instant > 0

\* C12: a wave starts, and so its first reaction fires, at a wall-clock
\* time that is not before the instant of its event's tag.
C12_PhysicalCatchUp ==
    /\ \A i \in 1..Len(waveLog) : waveLog[i].clock >= waveLog[i].process_at.instant
    /\ pc = "wave" => now >= event.process_at.instant

\* C12, witness: the first reaction of a wave has fired, at the very
\* instant of its event's tag, for an event scheduled after startup
C12_Witness ==
    /\ pc = "wave"
    /\ Len(fired) = 1
    /\ now = event.process_at.instant
    /\ event.process_at.instant > initial_time[1].instant

\* C13: when the scheduler has terminated, the shutdown reactions have been
\* run by exactly one wave, the last one, at the tag that follows the tag
\* current at the exit of the loop by one microstep.
C13_ShutdownReactionsRun ==
    pc = "done" =>
        LET n == Len(waveLog) IN
            /\ n >= 1
            /\ waveLog[n].todo = ShutdownReactions
            /\ waveLog[n].time =
                  Tag(WaveTime(n - 1).instant, WaveTime(n - 1).microstep + 1)
            /\ \A i \in 1..(n - 1) : waveLog[i].todo # ShutdownReactions

\* C14: no wave executes at a tag whose instant is later than the instant
\* of the initial tag plus the timeout.
C14_NoWaveAfterTimeout ==
    \A i \in 1..Len(waveLog) :
        waveLog[i].time.instant <= initial_time[1].instant + Timeout

\* the model runs no more waves
WaveBudgetSpent == Len(waveLog) = MaxWaves

\* what becomes of a blocked recv_timeout: an event that arrives is pushed
\* on the queue and the loop goes on; with no event by the deadline the
\* loop exits
RecvOutcome ==
    pc = "recv" =>
        \/ pc' = "recv"
        \/ chan # <<>> /\ pc' = "flush" /\ queue' = queue \cup {Head(chan)}
        \/ chan = <<>> /\ now >= deadline /\ pc' = "exit"

\* the loop cannot go on only because the model runs no more waves, or
\* because the clock of the model stops before the deadline of recv_timeout
BudgetBlocks ==
    \/ pc = "pop" /\ queue # {} /\ WaveBudgetSpent
    \/ pc = "recv" /\ chan = <<>> /\ deadline > MaxTime

\* C15: the loop blocks on the channel only when the queue is empty; an
\* event that arrives in time is enqueued and the loop continues, otherwise
\* the loop exits; and a run in which finitely many events are scheduled
\* and sent terminates.
C15_ExitsWhenIdle ==
    /\ [](pc = "recv" => queue = {})
    /\ [][RecvOutcome]_vars
    /\ <>(pc = "done" \/ BudgetBlocks)

\* C15, witness: the loop has run a wave, then timed out on the empty
\* channel with an empty queue, and the thread has ended
C15_Witness ==
    /\ pc = "done"
    /\ waveLog # <<>>
    /\ queue = {}
    /\ chan = <<>>

\* the tags a physical event can carry within the bounds
PhysTags == {Tag(i, m) : i \in 0..MaxTime, m \in {0, 1}}

\* C11: every physical event that was sent successfully with a tag later
\* than the current tag is eventually executed by a wave (as far as the
\* model runs waves at all).
C11_SentPhysicalEventsAreExecuted ==
    \A t \in PhysTags :
        (t \in physPending) ~> (t \notin physPending \/ WaveBudgetSpent)

(***************************************************************************)
(* Assembly of a data-flow graph: the FlowGraph operations applied in any  *)
(* order, then consume_to_schedulable.  declared records the edges the     *)
(* declarations stand for: r -> p for affects, p -> r for uses, up -> down *)
(* for a binding, k -> k+1 for consecutive reactions.                      *)
(***************************************************************************)
MaxDecls == 4

GReactions == {"A", "B"}

GPorts == {"P", "Q1", "Q2"}

\* the scheduler variables while a graph or a port test is exercised
RtIdle == RtInit({"both"})

RECURSIVE ReachIn(_, _)
ReachIn(E, S) ==
    LET T == S \cup {e[2] : e \in {x \in E : x[1] \in S}}
    IN  IF T = S THEN S ELSE ReachIn(E, T)

\* the elements that lie on a cycle of the declared dependencies
DeclaredCycleElts ==
    {x \in GReactions \cup GPorts :
        x \in ReachIn(declared, {e[2] : e \in {d \in declared : d[1] = x}})}

GraphInit ==
    /\ RtIdle
    /\ AsmIdle
    /\ IdsIdle
    /\ PortsIdle
    /\ dataflow = EmptyGraph
    /\ triggers = EmptyGraph
    /\ declared = {}
    /\ ndecl = 0
    /\ result = None

\* FlowGraph::add_reactions for the reactions of one reactor
GAddReactions ==
    /\ result = None
    /\ ndecl < MaxDecls
    /\ \E ids \in {<<"A", "B">>, <<"B", "A">>} :
          /\ dataflow' = AddReactions(dataflow, ids)
          /\ declared' = declared \cup {<<ids[1], ids[2]>>}
    /\ ndecl' = ndecl + 1
    /\ UNCHANGED <<rtVars, idVars, asmVars, portVars, triggers, result>>

\* FlowGraph::add_data_dependency
GAddDataDependency ==
    /\ result = None
    /\ ndecl < MaxDecls
    /\ \E r \in GReactions, p \in GPorts, kind \in {"Affects", "Use"} :
          /\ dataflow' = AddDataDependency(dataflow, r, p, kind)
          /\ declared' = declared \cup
                {IF kind = "Affects" THEN <<r, p>> ELSE <<p, r>>}
    /\ ndecl' = ndecl + 1
    /\ UNCHANGED <<rtVars, idVars, asmVars, portVars, triggers, result>>

\* FlowGraph::add_port_dependency: Ok adds the edge, Err adds none
GAddPortDependency ==
    /\ result = None
    /\ ndecl < MaxDecls
    /\ \E up \in GPorts : \E down \in GPorts \ {up} :
          LET r == AddPortDependency(dataflow, up, down)
          IN  /\ dataflow' = r.graph
              /\ declared' = IF r.ok THEN declared \cup {<<up, down>>} ELSE declared
    /\ ndecl' = ndecl + 1
    /\ UNCHANGED <<rtVars, idVars, asmVars, portVars, triggers, result>>

\* FlowGraph::consume_to_schedulable: the toposort's error, or the
\* Schedulable
GConsume ==
    /\ result = None
    /\ \E r \in Toposorted(dataflow) :
          result' = Some(IF r.ok
                         THEN [ok |-> TRUE,
                               reactions_by_port_id |-> ReactionsByPortId(dataflow, r.sorted)]
                         ELSE r)
    /\ UNCHANGED <<rtVars, idVars, asmVars, portVars, triggers, dataflow, declared, ndecl>>

GraphNext ==
    \/ GAddReactions
    \/ GAddDataDependency
    \/ GAddPortDependency
    \/ GConsume

SpecGraph == GraphInit /\ [][GraphNext]_vars

\* C9: when the declared dependencies contain a cycle, the result of the
\* assembly is the error CyclicDependency naming an element of a declared
\* cycle, and not a Schedulable.
C9_DeclaredCycleIsReported ==
    (result # None /\ DeclaredCycleElts # {}) =>
        /\ ~result[1].ok
        /\ result[1].err = "CyclicDependency"
        /\ result[1].node \in DeclaredCycleElts

(***************************************************************************)
(* Ports: value cells that bind_ports makes shared.  cellOf[p] names the   *)
(* cell port p reads and writes, upOf[p] the port p was bound to as a      *)
(* downstream, setLog[p] the values set on p, oldest first.  Binding is    *)
(* done while the program is assembled, before any port is set.            *)
(***************************************************************************)
MaxVal == 2

MaxSets == 2

Values == 1..MaxVal

\* set_downstream: the reactions recorded on each port before any binding
InitialDeps(p) ==
    CASE p = "P" -> <<0>>
      [] p = "P2" -> <<1, 2, 3>>
      [] p = "Q1" -> <<4>>
      [] OTHER -> <<>>

PortsInit ==
    /\ RtIdle
    /\ AsmIdle
    /\ IdsIdle
    /\ GraphIdle
    /\ cellOf = [p \in PortIds |-> p]
    /\ cell = [p \in PortIds |-> None]
    /\ status = [p \in PortIds |-> "Unbound"]
    /\ panicked = FALSE
    /\ upOf = [p \in PortIds |-> None]
    /\ setLog = [p \in PortIds |-> <<>>]
    /\ deps = [p \in PortIds |-> InitialDeps(p)]
    /\ lastBind = None

\* Port::get_downstream_deps
PortDeps(p) == deps[cellOf[p]]

\* Port::get
PortGet(p) == cell[cellOf[p]]

\* a binding that refuses only a downstream that has an upstream
BindAcceptsUnlessDownstream(st, down) == st[down] # "BoundDownstream"

\* a binding that accepts any downstream
BindAcceptsAnyDownstream(st, down) == TRUE

\* bind_ports accepts a downstream that is in no binding yet
BindAccepts(st, down) == st[down] = "Unbound"

\* a binding after which the upstream keeps its own dependencies only
AdoptNothing(upDeps, downDeps) == upDeps

\* bind_ports: the downstream's dependencies are appended to the upstream's
Adopt(upDeps, downDeps) == upDeps \o downDeps

\* bind_ports(up, down): down takes up's cell, which adopts the dependencies
\* of down's; a refused binding panics
PortBind ==
    /\ ~panicked
    /\ \A p \in PortIds : setLog[p] = <<>>
    /\ \E up \in PortIds : \E down \in PortIds \ {up} :
          IF BindAccepts(status, down)
          THEN /\ cellOf' = [cellOf EXCEPT ![down] = cellOf[up]]
               /\ upOf' = [upOf EXCEPT ![down] = Some(up)]
               /\ status' = [status EXCEPT
                                ![down] = "BoundDownstream",
                                ![up] = IF @ = "Unbound" THEN "BoundUpstream" ELSE @]
               /\ deps' = [deps EXCEPT
                              ![cellOf[up]] = Adopt(deps[cellOf[up]], deps[cellOf[down]]),
                              ![cellOf[down]] = IF cellOf[down] = cellOf[up] THEN @ ELSE <<>>]
               /\ lastBind' = Some(<<up, down>>)
               /\ UNCHANGED panicked
          ELSE /\ panicked' = TRUE
               /\ lastBind' = Some(<<up, down>>)
               /\ UNCHANGED <<cellOf, upOf, status, deps>>
    /\ UNCHANGED <<rtVars, idVars, asmVars, graphVars, cell, setLog>>

\* Port::set: stores the value in the port's cell; fails on a port that
\* has an upstream binding
PortSet ==
    /\ ~panicked
    /\ \E p \in PortIds : \E v \in Values :
          /\ Cardinality({<<q, i>> \in PortIds \X (1..MaxSets) : i <= Len(setLog[q])}) < MaxSets
          /\ IF upOf[p] = None
             THEN /\ cell' = [cell EXCEPT ![cellOf[p]] = Some(v)]
                  /\ setLog' = [setLog EXCEPT ![p] = Append(@, v)]
                  /\ UNCHANGED panicked
             ELSE /\ panicked' = TRUE
                  /\ UNCHANGED <<cell, setLog>>
    /\ UNCHANGED <<rtVars, idVars, asmVars, graphVars, cellOf, upOf, status, deps, lastBind>>

PortsNext == PortBind \/ PortSet

SpecPorts == PortsInit /\ [][PortsNext]_vars

\* the ports bound downstream of u, directly or through other ports
DownstreamOf(u) ==
    ReachIn({<<upOf[q][1], q>> : q \in {x \in PortIds : upOf[x] # None}}, {u}) \ {u}

\* C6: get on every port bound downstream of a port, directly, next to
\* other downstreams or through a chain of bindings, returns the value
\* that was last set on that port.
C6_PortPropagation ==
    \A u \in PortIds : \A q \in DownstreamOf(u) :
        setLog[u] # <<>> => PortGet(q) = Some(setLog[u][Len(setLog[u])])

\* C6, witness: a port with two direct downstreams, one of them with a
\* downstream of its own, has been set twice to different values
C6_Witness ==
    /\ upOf["P2"] = Some("P")
    /\ upOf["Q1"] = Some("P")
    /\ upOf["Q2"] = Some("Q1")
    /\ setLog["P"] = <<1, 2>>
    /\ PortGet("Q2") = Some(2)

\* the ports bound as upstream of port p in the data-flow graph
UpstreamPorts(g, p) ==
    {g.nodes[e[1]] : e \in {x \in g.edges : g.nodes[x[2]] = p /\ IsPortElt(g.nodes[x[1]])}}

HasDownstream(b) == \E c \in PortIds : upOf[c] = Some(b)

\* every bound port reads and writes the cell of its upstream
CellsShared ==
    \A q \in PortIds : upOf[q] # None => cellOf[q] = cellOf[upOf[q][1]]

\* C17: a bind_ports call onto a downstream that already is the upstream
\* of another port panics, and no port is ever left on a cell other than
\* its upstream's.
C17_NonTopologicalBindPanics ==
    /\ CellsShared
    /\ \A a, b \in PortIds :
          (lastBind = Some(<<a, b>>) /\ HasDownstream(b)) => panicked

\* C17, witness: after bind(Q1, Q2), bind(P, Q1) has panicked
C17_Witness ==
    /\ lastBind = Some(<<"P", "Q1">>)
    /\ upOf["Q2"] = Some("Q1")
    /\ upOf["Q1"] = None
    /\ panicked

\* the dependencies of a root port are those recorded on the ports of its
\* tree, each once, and its downstreams give the same list
DepsOfTree ==
    \A p \in PortIds :
        upOf[p] = None =>
            /\ Range(PortDeps(p)) =
                  UNION {Range(InitialDeps(q)) : q \in {p} \cup DownstreamOf(p)}
            /\ Cardinality(Range(PortDeps(p))) = Len(PortDeps(p))
            /\ \A q \in DownstreamOf(p) : PortDeps(q) = PortDeps(p)

\* a binding that takes effect leaves the upstream with its dependencies
\* followed by those of the downstream
BindAppends ==
    \A d \in PortIds :
        upOf'[d] # upOf[d] =>
            LET u == upOf'[d][1]
            IN  deps'[cellOf'[u]] = deps[cellOf[u]] \o deps[cellOf[d]]

\* C18: bind(up, down) appends down's dependencies to up's, after up's own
\* and in their order, so that up then holds the reactions of both ports.
C18_DependenciesAdopted == []DepsOfTree /\ [][BindAppends]_vars

\* C18, witness: up = [0] bound to down = [1, 2, 3] gives up = [0, 1, 2, 3]
C18_Witness ==
    /\ upOf["P2"] = Some("P")
    /\ PortDeps("P") = <<0, 1, 2, 3>>
    /\ \A q \in PortIds \ {"P2"} : upOf[q] = None

(***************************************************************************)
(* Assembler::bind_ports, called by the assembler of any reactor on any    *)
(* two ports of the reactor tree root > {a > {a.c}, b}.  Every reactor has *)
(* one input and one output port.  declared records the calls that added   *)
(* an edge, result the last call and its outcome.                          *)
(***************************************************************************)
MaxBinds == 2

AssemblyIds == {"root", "a", "b", "a.c"}

\* AssemblyId::Nested { parent, .. }, none for AssemblyId::Root
ParentOf(id) ==
    CASE id = "a" -> Some("root")
      [] id = "b" -> Some("root")
      [] id = "a.c" -> Some("a")
      [] OTHER -> None

APorts == [container : AssemblyIds, kind : {"Input", "Output"}]

IsInput(p) == p.kind = "Input"

IsOutput(p) == p.kind = "Output"

\* the port is declared by the reactor itself
IsInReactor(p, id) == p.container = id

\* the port is declared by a reactor whose parent is the reactor
IsInDirectSubreactorOf(p, id) == ParentOf(p.container) = Some(id)

\* the structural rules of a binding made by reactor me
StructurallyValid(me, up, down) ==
    \/ /\ IsInput(up) /\ IsInReactor(up, me)
       /\ \/ IsInput(down) /\ IsInDirectSubreactorOf(down, me)
          \/ IsOutput(down) /\ IsInReactor(down, me)
    \/ /\ IsOutput(up) /\ IsInDirectSubreactorOf(up, me)
       /\ \/ /\ IsInput(down) /\ IsInDirectSubreactorOf(down, me)
             /\ down.container # up.container
          \/ IsOutput(down) /\ IsInReactor(down, me)

\* the checks of bind_ports: the cause of the InvalidBinding it returns,
\* or none
InvalidCause(me, up, down) ==
    IF IsInput(up)
    THEN IF ~IsInReactor(up, me) THEN Some("1.")
         ELSE IF IsInput(down) /\ ~IsInDirectSubreactorOf(up, me) THEN Some("1.i.")
         ELSE IF IsOutput(down) /\ ~IsInReactor(up, me) THEN Some("1.ii.")
         ELSE None
    ELSE IF ~IsInDirectSubreactorOf(up, me) THEN Some("2.")
         ELSE IF /\ IsInput(down)
                 /\ (~IsInDirectSubreactorOf(up, me) \/ down = up) THEN Some("2.i.")
         ELSE IF IsOutput(down) /\ ~IsInReactor(up, me) THEN Some("2.ii.")
         ELSE None

AssemblerInit ==
    /\ RtIdle
    /\ AsmIdle
    /\ IdsIdle
    /\ dataflow = EmptyGraph
    /\ triggers = EmptyGraph
    /\ declared = {}
    /\ ndecl = 0
    /\ result = None
    /\ cellOf = [p \in APorts |-> p]
    /\ cell = [p \in APorts |-> None]
    /\ status = [p \in APorts |-> "Unbound"]
    /\ panicked = FALSE
    /\ upOf = [p \in APorts |-> None]
    /\ setLog = [p \in APorts |-> <<>>]
    /\ deps = [p \in APorts |-> <<>>]
    /\ lastBind = None

\* the outcome of a bind_ports call
BindResult(me, up, down, ok, err, cause) ==
    Some([op |-> "bind_ports", me |-> me, up |-> up, down |-> down,
          ok |-> ok, err |-> err, cause |-> cause])

\* the reaction of reactor me
ReactionOf(me) == [container |-> me, kind |-> "Reaction"]

\* the outcome of a reaction_uses or reaction_affects call
DepResult(op, me, port, ok, err) ==
    Some([op |-> op, me |-> me, reaction |-> ReactionOf(me), port |-> port,
          ok |-> ok, err |-> err])

\* bind_ports returns the InvalidBinding of its own checks
BindPortsInvalid ==
    /\ ndecl < MaxBinds
    /\ \E me \in AssemblyIds : \E up \in APorts : \E down \in APorts :
          /\ InvalidCause(me, up, down) # None
          /\ result' = BindResult(me, up, down, FALSE, "InvalidBinding",
                                  InvalidCause(me, up, down)[1])
    /\ ndecl' = ndecl + 1
    /\ UNCHANGED <<rtVars, idVars, asmVars, portVars, triggers, dataflow, declared>>

\* bind_ports passes its own checks and FlowGraph::add_port_dependency
\* refuses the downstream
BindPortsRefused ==
    /\ ndecl < MaxBinds
    /\ \E me \in AssemblyIds : \E up \in APorts : \E down \in APorts :
          /\ InvalidCause(me, up, down) = None
          /\ ~AddPortDependency(dataflow, up, down).ok
          /\ dataflow' = AddPortDependency(dataflow, up, down).graph
          /\ result' = BindResult(me, up, down, FALSE, "InvalidBinding", "affected")
    /\ ndecl' = ndecl + 1
    /\ UNCHANGED <<rtVars, idVars, asmVars, portVars, triggers, declared>>

\* bind_ports passes its own checks, add_port_dependency adds the edge and
\* forward_to binds the ports, or fails on a downstream that is in a
\* binding already
BindPortsForward ==
    /\ ndecl < MaxBinds
    /\ \E me \in AssemblyIds : \E up \in APorts : \E down \in APorts :
          /\ InvalidCause(me, up, down) = None
          /\ AddPortDependency(dataflow, up, down).ok
          /\ dataflow' = AddPortDependency(dataflow, up, down).graph
          /\ declared' = declared \cup {<<me, up, down>>}
          /\ lastBind' = Some(<<up, down>>)
          /\ IF BindAccepts(status, down)
             THEN /\ cellOf' = [cellOf EXCEPT ![down] = cellOf[up]]
                  /\ upOf' = [upOf EXCEPT ![down] = Some(up)]
                  /\ status' = [status EXCEPT
                                   ![down] = "BoundDownstream",
                                   ![up] = IF @ = "Unbound" THEN "BoundUpstream" ELSE @]
                  /\ deps' = [deps EXCEPT
                                 ![cellOf[up]] = Adopt(deps[cellOf[up]], deps[cellOf[down]]),
                                 ![cellOf[down]] = IF cellOf[down] = cellOf[up] THEN @ ELSE <<>>]
                  /\ result' = BindResult(me, up, down, TRUE, "", "")
             ELSE /\ result' = BindResult(me, up, down, FALSE, "forward_to", "")
                  /\ UNCHANGED <<cellOf, upOf, status, deps>>
    /\ ndecl' = ndecl + 1
    /\ UNCHANGED <<rtVars, idVars, asmVars, triggers, cell, setLog, panicked>>

\* checks that let a reaction read any port
UsesAcceptsAnyPort(me, port) == TRUE

\* the checks of reaction_uses: the port is one the reaction may read
UsesAccepts(me, port) ==
    IF IsInput(port) /\ ~IsInReactor(port, me) THEN FALSE
    ELSE IF IsOutput(port) /\ ~IsInDirectSubreactorOf(port, me) THEN FALSE
    ELSE TRUE

\* reaction_uses(reaction, port) by the assembler of reactor me
ReactionUses ==
    /\ ndecl < MaxBinds
    /\ \E me \in AssemblyIds : \E port \in APorts :
          IF UsesAccepts(me, port)
          THEN /\ dataflow' = AddDataDependency(dataflow, ReactionOf(me), port, "Use")
               /\ result' = DepResult("reaction_uses", me, port, TRUE, "")
          ELSE /\ result' = DepResult("reaction_uses", me, port, FALSE, "InvalidDependency")
               /\ UNCHANGED dataflow
    /\ ndecl' = ndecl + 1
    /\ UNCHANGED <<rtVars, idVars, asmVars, portVars, triggers, declared>>

\* reaction_affects without the check of the port's bind status
AffectsAcceptsBound(me, port, st) ==
    IF IsOutput(port) /\ ~IsInReactor(port, me) THEN FALSE
    ELSE IF IsInput(port) /\ ~IsInDirectSubreactorOf(port, me) THEN FALSE
    ELSE TRUE

\* the checks of reaction_affects: the port is one the reaction may set
AffectsAccepts(me, port, st) ==
    IF IsOutput(port) /\ ~IsInReactor(port, me) THEN FALSE
    ELSE IF IsInput(port) /\ ~IsInDirectSubreactorOf(port, me) THEN FALSE
    ELSE IF st[port] # "Unbound" THEN FALSE
    ELSE TRUE

\* reaction_affects(reaction, port) by the assembler of reactor me
ReactionAffects ==
    /\ ndecl < MaxBinds
    /\ \E me \in AssemblyIds : \E port \in APorts :
          IF AffectsAccepts(me, port, status)
          THEN /\ dataflow' = AddDataDependency(dataflow, ReactionOf(me), port, "Affects")
               /\ result' = DepResult("reaction_affects", me, port, TRUE, "")
          ELSE /\ result' = DepResult("reaction_affects", me, port, FALSE, "InvalidDependency")
               /\ UNCHANGED dataflow
    /\ ndecl' = ndecl + 1
    /\ UNCHANGED <<rtVars, idVars, asmVars, portVars, triggers, declared>>

AssemblerNext ==
    \/ BindPortsInvalid
    \/ BindPortsRefused
    \/ BindPortsForward
    \/ ReactionUses
    \/ ReactionAffects

SpecAssembler == AssemblerInit /\ [][AssemblerNext]_vars

\* the port is in no binding and nothing leads to it in the data-flow graph
IsFree(p) ==
    /\ status[p] = "Unbound"
    /\ p \in Range(dataflow.nodes) => ~HasIncoming(dataflow, GraphId(dataflow, p))

\* C19: bind_ports accepts every binding of the shapes 1.i, 1.ii, 2.i and
\* 2.ii whose downstream is free.  A refused call leaves every port as it
\* was, so after a refused call of one of these shapes the downstream is
\* not free.
C19_ValidBindingsAccepted ==
    (result # None /\ result[1].op = "bind_ports") =>
        LET r == result[1]
        IN  (StructurallyValid(r.me, r.up, r.down) /\ IsFree(r.down)) => r.ok

\* C20: bind_ports returns InvalidBinding for every binding that is of none
\* of the four shapes, and no call of such a binding adds an edge.
C20_InvalidBindingsRejected ==
    /\ (result # None /\ result[1].op = "bind_ports") =>
          LET r == result[1]
          IN  ~StructurallyValid(r.me, r.up, r.down) =>
                 ~r.ok /\ r.err = "InvalidBinding"
    /\ \A d \in declared : StructurallyValid(d[1], d[2], d[3])

\* some reaction affects port p in the data-flow graph
IsAffected(g, p) ==
    \E e \in g.edges : g.nodes[e[2]] = p /\ g.nodes[e[1]].kind = "Reaction"

\* a bind_ports call onto a downstream that has an upstream or is affected
\* by a reaction returns InvalidBinding and leaves the edges as they were
TakenDownstreamRefused ==
    LET r == result'[1]
    IN  (r.op = "bind_ports" /\ (upOf[r.down] # None \/ IsAffected(dataflow, r.down))) =>
            /\ ~r.ok
            /\ r.err = "InvalidBinding"
            /\ dataflow'.edges = dataflow.edges

\* C21: bind_ports fails with InvalidBinding and adds no edge whenever the
\* downstream port already has an upstream port or is affected by a
\* reaction.
C21_TakenDownstreamRefused == [][TakenDownstreamRefused]_vars

\* C21, witness: a binding that passes the structural checks has been
\* refused because its downstream is bound to another upstream
C21_Witness ==
    /\ result # None
    /\ result[1].op = "bind_ports"
    /\ result[1].cause = "affected"
    /\ upOf[result[1].down] # None
    /\ upOf[result[1].down] # Some(result[1].up)

\* some reaction uses port p in the data-flow graph
IsUsed(g, p) ==
    \E e \in g.edges : g.nodes[e[1]] = p /\ g.nodes[e[2]].kind = "Reaction"

\* C22: a bind_ports call whose upstream port some reaction has been
\* declared to use fails.  The call is the last one made, so every use in
\* the graph was declared before it.
C22_UsedUpstreamRefused ==
    (result # None /\ result[1].op = "bind_ports" /\ IsUsed(dataflow, result[1].up)) =>
        ~result[1].ok

\* a port the reactions of reactor me may read
MayUse(me, port) ==
    \/ IsInput(port) /\ IsInReactor(port, me)
    \/ IsOutput(port) /\ IsInDirectSubreactorOf(port, me)

\* the edges of graph g, by their elements
EltEdges(g) == {<<g.nodes[e[1]], g.nodes[e[2]]>> : e \in g.edges}

\* a reaction_uses call on a port the reaction may read returns Ok and adds
\* the edge port -> reaction and no other; any other returns
\* InvalidDependency and leaves the graph as it was
UsesOutcome ==
    LET r == result'[1]
    IN  r.op = "reaction_uses" =>
            IF MayUse(r.me, r.port)
            THEN /\ r.ok
                 /\ EltEdges(dataflow') = EltEdges(dataflow) \cup {<<r.port, r.reaction>>}
            ELSE /\ ~r.ok
                 /\ r.err = "InvalidDependency"
                 /\ dataflow' = dataflow

\* C23: reaction_uses(r, p) returns Ok and adds the edge p -> r exactly
\* when p is an input port of this reactor or an output port of a direct
\* sub-reactor; otherwise it returns InvalidDependency and adds no edge.
C23_ReactionUses == [][UsesOutcome]_vars

\* C23, witness: of two declarations, the use of the output of a direct
\* sub-reactor is the last, and its edge is the only one of the graph
C23_Witness ==
    /\ result # None
    /\ result[1].op = "reaction_uses"
    /\ result[1].ok
    /\ result[1].me = "root"
    /\ result[1].port = [container |-> "a", kind |-> "Output"]
    /\ EltEdges(dataflow) = {<<result[1].port, ReactionOf("root")>>}
    /\ ndecl = 2

\* a port the reactions of reactor me may set
MayAffect(me, port) ==
    \/ IsOutput(port) /\ IsInReactor(port, me)
    \/ IsInput(port) /\ IsInDirectSubreactorOf(port, me)

\* C24: reaction_affects(r, p) returns Ok, and the edge r -> p is in the
\* graph, exactly when p is an output port of this reactor or an input
\* port of a direct sub-reactor and p has no upstream binding, also when p
\* is the upstream of other ports; otherwise it returns InvalidDependency.
\* The call leaves the bindings as they were, so they are read after it.
C24_ReactionAffects ==
    (result # None /\ result[1].op = "reaction_affects") =>
        LET r == result[1]
        IN  IF MayAffect(r.me, r.port) /\ upOf[r.port] = None
            THEN r.ok /\ <<r.reaction, r.port>> \in EltEdges(dataflow)
            ELSE ~r.ok /\ r.err = "InvalidDependency"

(***************************************************************************)
(* Assembly of a reactor tree: make_world runs the assemble of the root,   *)
(* every new_subreactor runs the assemble of the sub-reactor on an         *)
(* assembler of its own.  An assembler is named by the path of local names *)
(* that leads to it from the root.  Every assemble returns the errors of   *)
(* its calls to its caller.                                                *)
(***************************************************************************)
MaxDepth == 2

Names == {"r", "x"}

\* the reactions of a sub-reactor, as reaction_ids! lists them; the root
\* declares none
ReactionNames == <<"r">>

\* a new_id that takes any name
NewIdUnchecked(known, name) == [ok |-> TRUE, known |-> known \cup {name}]

\* Assembler::new_id: the name is refused if known, and known otherwise
NewId(known, name) ==
    IF name \in known
    THEN [ok |-> FALSE, known |-> known]
    ELSE [ok |-> TRUE, known |-> known \cup {name}]

\* make_reaction_global_ids: new_id for every reaction, up to the first
\* that is refused
RECURSIVE MakeReactionGlobalIds(_, _)
MakeReactionGlobalIds(known, ids) ==
    IF ids = <<>> THEN [ok |-> TRUE, known |-> known]
    ELSE LET r == NewId(known, Head(ids))
         IN  IF r.ok THEN MakeReactionGlobalIds(r.known, Tail(ids)) ELSE r

\* the assembler whose assemble is running
Top == stack[Len(stack)]

\* an error returned by a call of the running assemble
Raise(kind) == Some([inner |-> kind, layers |-> <<>>, at |-> Top])

\* an error that is handed on as it is
NotWrapped(id, e) == e

\* AssemblyError::InContext(id, e)
InContext(id, e) == [e EXCEPT !.layers = <<id>> \o @]

NamesInit ==
    /\ RtIdle
    /\ GraphIdle
    /\ PortsIdle
    /\ IdsIdle
    /\ local_names = [id \in {<<>>} |-> {}]
    /\ stack = << <<>> >>
    /\ raised = None
    /\ obtained = {}
    /\ lastCall = None

Call(op, name, ok) == Some([op |-> op, on |-> Top, name |-> name, ok |-> ok])

\* new_input_port, new_output_port, new_action
NewComponent ==
    /\ stack # <<>>
    /\ raised = None
    /\ \E op \in {"new_input_port", "new_output_port", "new_action"} : \E name \in Names :
          LET r == NewId(local_names[Top], name)
          IN  /\ local_names' = [local_names EXCEPT ![Top] = r.known]
              /\ raised' = IF r.ok THEN None ELSE Raise("DuplicateName")
              /\ lastCall' = Call(op, name, r.ok)
    /\ UNCHANGED <<rtVars, idVars, graphVars, portVars, stack, obtained>>

\* new_subreactor, up to the call of the sub-reactor's assemble; an error
\* of new_id or of make_reaction_global_ids is returned as it is
NewSubreactor ==
    /\ stack # <<>>
    /\ Len(stack) <= MaxDepth
    /\ raised = None
    /\ \E name \in Names :
          LET r == NewId(local_names[Top], name)
              sub == Append(Top, name)
              g == MakeReactionGlobalIds({}, ReactionNames)
          IN  IF ~r.ok
              THEN /\ raised' = Raise("DuplicateName")
                   /\ lastCall' = Call("new_subreactor", name, FALSE)
                   /\ UNCHANGED <<local_names, stack>>
              ELSE IF ~g.ok
              THEN /\ raised' = Some([inner |-> "DuplicateName", layers |-> <<>>, at |-> sub])
                   /\ lastCall' = Call("new_subreactor", name, TRUE)
                   /\ local_names' = [local_names EXCEPT ![Top] = r.known]
                   /\ UNCHANGED stack
              ELSE /\ local_names' = [id \in DOMAIN local_names \cup {sub} |->
                                         IF id = sub THEN g.known
                                         ELSE IF id = Top THEN r.known
                                         ELSE local_names[id]]
                   /\ stack' = Append(stack, sub)
                   /\ raised' = None
                   /\ lastCall' = Call("new_subreactor", name, TRUE)
    /\ UNCHANGED <<rtVars, idVars, graphVars, portVars, obtained>>

\* a dependency declaration of the running assemble returns an error
DeclarationFails ==
    /\ stack # <<>>
    /\ raised = None
    /\ \E kind \in {"InvalidBinding", "InvalidDependency"} :
          /\ raised' = Raise(kind)
          /\ lastCall' = Call(kind, "", FALSE)
    /\ UNCHANGED <<rtVars, idVars, graphVars, portVars, local_names, stack, obtained>>

\* the running assemble returns Ok: new_subreactor gives the sub-reactor to
\* the parent, make_world gives the root
AssembleOk ==
    /\ stack # <<>>
    /\ raised = None
    /\ obtained' = obtained \cup {Top}
    /\ stack' = SubSeq(stack, 1, Len(stack) - 1)
    /\ local_names' = [id \in DOMAIN local_names \ {Top} |-> local_names[id]]
    /\ UNCHANGED <<rtVars, idVars, graphVars, portVars, raised, lastCall>>

\* the running assemble returns an error: new_subreactor wraps it and the
\* parent's assemble returns it in turn, make_world returns it as it is
AssembleErr ==
    /\ stack # <<>>
    /\ raised # None
    /\ raised' = IF Len(stack) > 1 THEN Some(InContext(Top, raised[1])) ELSE raised
    /\ stack' = SubSeq(stack, 1, Len(stack) - 1)
    /\ local_names' = [id \in DOMAIN local_names \ {Top} |-> local_names[id]]
    /\ UNCHANGED <<rtVars, idVars, graphVars, portVars, obtained, lastCall>>

NamesNext ==
    \/ NewComponent
    \/ NewSubreactor
    \/ DeclarationFails
    \/ AssembleOk
    \/ AssembleErr

SpecNames == NamesInit /\ [][NamesNext]_vars

\* a call that creates a component under a name known to its assembler
\* returns DuplicateName and leaves all names as they were; under any other
\* name it succeeds and the name is known from then on
CreationOutcome ==
    (lastCall' # lastCall /\ lastCall'[1].op \notin {"InvalidBinding", "InvalidDependency"}) =>
        LET c == lastCall'[1]
        IN  IF c.name \in local_names[c.on]
            THEN /\ ~c.ok
                 /\ raised' # None
                 /\ raised'[1].inner = "DuplicateName"
                 /\ raised'[1].layers = <<>>
                 /\ local_names' = local_names
                 /\ stack' = stack
            ELSE /\ c.ok
                 /\ raised' = None
                 /\ local_names'[c.on] = local_names[c.on] \cup {c.name}

\* C25: in one reactor's assembler, creating a port, an action or a
\* sub-reactor under a local name that a port, action, sub-reactor or
\* reaction of that reactor has fails with DuplicateName and leaves the
\* known names unchanged; a name known only to other reactors is accepted.
C25_DuplicateNames == [][CreationOutcome]_vars

\* C25, witness: a sub-reactor named like a port of its parent has created
\* a port under that same name, and a component named like its reaction
\* has been refused
C25_Witness ==
    /\ stack = << <<>>, <<"x">> >>
    /\ local_names[<<"x">>] = {"r", "x"}
    /\ "x" \in local_names[<<>>]
    /\ lastCall = Some([op |-> "new_action", on |-> <<"x">>, name |-> "r", ok |-> FALSE])
    /\ raised # None

\* the depth of the assembler that runs, 0 for the root and when none runs
Depth == Max2(Len(stack) - 1, 0)

\* C26: an error raised while a sub-reactor is assembled comes out of each
\* new_subreactor on its way up as InContext(id of that sub-reactor, error
\* as it came), so that an error raised d levels below the root leaves
\* make_world in d layers, outermost first, and no parent obtains a
\* sub-reactor whose assembly returned the error.
C26_ErrorsInContext ==
    raised # None =>
        LET e == raised[1]
        IN  /\ Len(e.layers) = Len(e.at) - Depth
            /\ \A i \in 1..Len(e.layers) : e.layers[i] = SubSeq(e.at, 1, Depth + i)
            /\ \A i \in 1..Len(e.layers) : e.layers[i] \notin obtained

\* C26, witness: an error raised two levels below the root has left
\* make_world in two layers
C26_Witness ==
    /\ stack = <<>>
    /\ raised # None
    /\ raised[1].inner = "InvalidBinding"
    /\ raised[1].layers = << <<"x">>, <<"x", "x">> >>

(***************************************************************************)
(* The scheduler running a program in which a reaction does at run time    *)
(* what it did not declare at assembly time.                               *)
(***************************************************************************)
InitUndeclared == RtInit({"undeclared"}) /\ GraphIdle /\ PortsIdle /\ AsmIdle /\ IdsIdle

SpecUndeclared == InitUndeclared /\ [][Next]_vars

\* C27: no port set and no action scheduled in a wave is one that no
\* reaction fired in the wave has declared: a reaction that sets a port it
\* did not declare with reaction_affects, or schedules an action it did not
\* declare with reaction_schedules, aborts the program before the port is
\* set or the event sent.
C27_UndeclaredAccessAborts ==
    \A x \in wrote :
        \E i \in 1..Len(fired) :
            x \in AffectedPorts(prog, fired[i]) \cup SchedulableActions(fired[i])

\* the consecutive reactions (k, k+1) given to add_reactions
DeclaredPriorities == {d \in declared : d[1] \in GReactions /\ d[2] \in GReactions}

\* C28: for reactions k, k+1 declared consecutively, add_reactions adds
\* the edge k -> k+1 to the data-flow graph, and an assembly whose declared
\* dependencies, priorities included, have no cycle is not reported as
\* cyclic.
C28_PriorityEdgeForward ==
    /\ \A d \in DeclaredPriorities : <<d[1], d[2]>> \in EltEdges(dataflow)
    /\ (result # None /\ DeclaredCycleElts = {}) => result[1].ok

\* the reactions reachable from port p in graph g
ReachableReactions(g, p) ==
    {r \in Range(g.nodes) :
        IsReactionElt(r) /\ HasPathConnecting(g, GraphId(g, p), GraphId(g, r))}

\* C29: after a successful assembly, whatever the topological order and
\* the numbering of the nodes, reactions_by_port_id[P] of every port P
\* lists the reactions reachable from P in the data-flow graph, all of
\* them and no other, each once, none before a reaction that leads to it.
C29_PortDescendantsExact ==
    (result # None /\ result[1].ok) =>
        \A p \in DOMAIN result[1].reactions_by_port_id :
            LET l == result[1].reactions_by_port_id[p]
            IN  /\ Range(l) = ReachableReactions(dataflow, p)
                /\ Cardinality(Range(l)) = Len(l)
                /\ \A i, j \in 1..Len(l) :
                      i < j => ~HasPathConnecting(dataflow, GraphId(dataflow, l[j]),
                                                  GraphId(dataflow, l[i]))

(***************************************************************************)
(* Trigger dependencies: what Assembler::action_triggers and               *)
(* Assembler::reaction_schedules record, what add_trigger_dependency adds  *)
(* to the trigger graph, and what consume_to_schedulable reads from it.    *)
(* declared records a -> r for "a triggers r" and r -> a for "r schedules  *)
(* a".                                                                     *)
(***************************************************************************)
TriggersInit ==
    /\ RtIdle
    /\ AsmIdle
    /\ IdsIdle
    /\ PortsIdle
    /\ dataflow = EmptyGraph
    /\ triggers = EmptyGraph
    /\ declared = {}
    /\ ndecl = 0
    /\ result = None

\* Assembler::action_triggers(action, reaction): the body is empty
ActionTriggers ==
    /\ result = None
    /\ ndecl < MaxDecls
    /\ \E a \in ActionIds : \E r \in GReactions :
          declared' = declared \cup {<<a, r>>}
    /\ ndecl' = ndecl + 1
    /\ UNCHANGED <<rtVars, idVars, asmVars, portVars, dataflow, triggers, result>>

\* Assembler::reaction_schedules(reaction, action): the body is empty
ReactionSchedules ==
    /\ result = None
    /\ ndecl < MaxDecls
    /\ \E a \in ActionIds : \E r \in GReactions :
          declared' = declared \cup {<<r, a>>}
    /\ ndecl' = ndecl + 1
    /\ UNCHANGED <<rtVars, idVars, asmVars, portVars, dataflow, triggers, result>>

\* FlowGraph::add_trigger_dependency(reaction, action, kind): Use stands
\* for the action triggering the reaction, Affects for the reaction
\* scheduling the action
AddTriggerDependency ==
    /\ result = None
    /\ ndecl < MaxDecls
    /\ \E a \in ActionIds : \E r \in GReactions : \E kind \in {"Affects", "Use"} :
          /\ triggers' = AddDependency(triggers, r, a, kind)
          /\ declared' = declared \cup {IF kind = "Use" THEN <<a, r>> ELSE <<r, a>>}
    /\ ndecl' = ndecl + 1
    /\ UNCHANGED <<rtVars, idVars, asmVars, portVars, dataflow, result>>

\* iter_neighbors(elt, direction), for the neighbours of one kind
Neighbors(g, elt, direction, kinds) ==
    {x \in kinds :
        /\ x \in Range(g.nodes)
        /\ IF direction = "Incoming"
           THEN <<GraphId(g, x), GraphId(g, elt)>> \in g.edges
           ELSE <<GraphId(g, elt), GraphId(g, x)>> \in g.edges}

\* consume_to_schedulable: action_triggers_reaction and
\* reaction_schedules_action of the Schedulable
TConsume ==
    /\ result = None
    /\ result' = Some([ok |-> TRUE,
                       action_triggers_reaction |->
                           [a \in ActionIds \cap Range(triggers.nodes) |->
                               Neighbors(triggers, a, "Incoming", GReactions)],
                       reaction_schedules_action |->
                           [r \in GReactions \cap Range(triggers.nodes) |->
                               Neighbors(triggers, r, "Outgoing", ActionIds)]])
    /\ UNCHANGED <<rtVars, idVars, asmVars, portVars, dataflow, triggers, declared, ndecl>>

TriggersNext ==
    \/ ActionTriggers
    \/ ReactionSchedules
    \/ AddTriggerDependency
    \/ TConsume

SpecTriggers == TriggersInit /\ [][TriggersNext]_vars

\* Schedulable::get_triggered_reactions
GetTriggeredReactions(sch, a) ==
    IF a \in DOMAIN sch.action_triggers_reaction THEN sch.action_triggers_reaction[a] ELSE {}

\* C30: the reactions the Schedulable gives for an action are those that
\* were declared as triggered by it: every one of them, and none that only
\* schedules the action.
C30_ActionTriggers ==
    result # None =>
        \A a \in ActionIds :
            GetTriggeredReactions(result[1], a) = {r \in GReactions : <<a, r>> \in declared}

(***************************************************************************)
(* A port is written from one place: its upstream port or a reaction.      *)
(***************************************************************************)
\* port p has an upstream port in the data-flow graph
HasUpstreamPort(g, p) ==
    \E e \in g.edges : g.nodes[e[2]] = p /\ g.nodes[e[1]].kind = "Port"

\* C31: after any sequence of bind_ports and reaction_affects calls, no port
\* has both an upstream port binding (as a binding of the port, or as a
\* port -> port edge of the data-flow graph) and a reaction affecting it.
C31_OneWriterPerPort ==
    \A p \in APorts :
        ~(IsAffected(dataflow, p) /\ (upOf[p] # None \/ HasUpstreamPort(dataflow, p)))

\* C31, witness: both orders have been refused: a reaction_affects on a port
\* it may set that is bound to an upstream, or a bind_ports onto a
\* downstream that a reaction affects
C31_Witness ==
    /\ result # None
    /\ ~result[1].ok
    /\ \/ /\ result[1].op = "reaction_affects"
          /\ MayAffect(result[1].me, result[1].port)
          /\ upOf[result[1].port] # None
       \/ /\ result[1].op = "bind_ports"
          /\ result[1].cause = "affected"
          /\ IsAffected(dataflow, result[1].down)

(***************************************************************************)
(* Scheduling of actions: program "timer", whose reactions and producer    *)
(* call schedule with an additional delay, and whose actions trigger       *)
(* different reactions.                                                    *)
(***************************************************************************)
InitTimer == RtInit({"timer"}) /\ GraphIdle /\ PortsIdle /\ AsmIdle /\ IdsIdle

SpecTimer == InitTimer /\ [][Next]_vars

\* the instant of the event a call of schedule makes
EtaInstant(c) ==
    LET eta == c.time.instant + MinDelay(c.action) + c.offset
    IN  IF IsLogical(c.action) THEN eta ELSE Max2(eta, c.clock)

\* C32: a call schedule(action, additional_delay) made at tag (t, m) sends
\* an event whose instant is t + min_delay + additional_delay, raised to
\* now() for a physical action, whose microstep is m + 1 if that instant is
\* t and 0 otherwise, and whose reactions are those the action triggers.
C32_ScheduledEvent ==
    \A c \in scheduled :
        /\ c.evt.process_at.instant = EtaInstant(c)
        /\ c.evt.process_at.microstep =
               IF EtaInstant(c) = c.time.instant THEN c.time.microstep + 1 ELSE 0
        /\ c.evt.todo = ActionDownstream(prog, c.action)

\* C32, witness: a physical action has been scheduled with an additional
\* delay and its instant was raised to the clock, and a logical action has
\* been scheduled with an additional delay
C32_Witness ==
    /\ \E c \in scheduled :
          /\ ~IsLogical(c.action)
          /\ c.offset > 0
          /\ c.clock > c.time.instant + MinDelay(c.action) + c.offset
    /\ \E c \in scheduled : IsLogical(c.action) /\ c.offset > 0

\* C33: every event a reaction schedules from a wave at tag T is to be
\* processed at a tag strictly later than T, whatever the action's min_delay
\* and the additional delay: the assertion of enqueue_later holds.
C33_ScheduledLater ==
    \A c \in scheduled : IsLogical(c.action) => TagLT(c.time, c.evt.process_at)

\* C33, witness: the reaction of a wave has scheduled a logical action
\* without delay and without additional delay, for the next microstep
C33_Witness ==
    \E c \in scheduled :
        /\ IsLogical(c.action)
        /\ MinDelay(c.action) = 0
        /\ c.offset = 0
        /\ pc = "wave"
        /\ c.time = wave.logical_time
        /\ c.evt.process_at = Tag(c.time.instant, c.time.microstep + 1)

\* C34: the wave of a popped event tagged (i, m) runs at the tag
\* (max(now(), i), m), and that tag is the one published as the current
\* tag: the catch-up with physical time keeps the event's microstep.
C34_CatchUpKeepsMicrostep ==
    /\ \A k \in 1..Len(waveLog) :
          waveLog[k].time = Tag(Max2(waveLog[k].clock, waveLog[k].process_at.instant),
                                waveLog[k].process_at.microstep)
    /\ pc = "wave" => cur_logical_time = wave.logical_time

\* C35: events of the same tag are merged: the queue never holds two events
\* of one tag, which would be executed as two waves.
C35_OneEventPerTag ==
    \A e \in queue : \A f \in queue : e.process_at = f.process_at => e = f

\* C36: the startup wave is run to completion: once the event loop runs, no
\* wave has been dropped with reactions left on its todo list.
C36_StartupWaveCompleted ==
    pc \notin {"new", "startup"} => (wave.live \/ wave.todo = <<>>)

\* a step in which schedule or schedule_physical was called
ScheduleStep == (scheduled' # scheduled /\ scheduled' # {}) \/ ppc' # ppc

\* the calls of schedule and schedule_physical leave the queue and the
\* current tag alone; the queue changes in the steps of the event loop only,
\* and the current tag when a wave begins only
OnlyTheLoopWrites ==
    /\ ScheduleStep => (queue' = queue /\ cur_logical_time' = cur_logical_time)
    /\ queue' # queue => (pc \in {"flush", "pop", "recv"} /\ pc' # pc)
    /\ cur_logical_time' # cur_logical_time => (pc \in {"pop", "sleep"} /\ pc' = "wave")

\* C37: the event queue and the cell of the current tag are modified by the
\* loop of the scheduler thread only: schedule and schedule_physical send
\* on the channel, and schedule_physical only reads the cell.
C37_OnlyTheLoopWrites == [][OnlyTheLoopWrites]_vars

\* C37, witness: while a wave is running, a reaction of the wave and the
\* producer have both scheduled an action: the events are on the channel
\* and the queue holds neither
C37_Witness ==
    /\ pc = "wave"
    /\ \E c \in scheduled :
          ~IsLogical(c.action) /\ c.evt \in Range(chan) /\ c.evt \notin queue
    /\ \E c \in scheduled :
          IsLogical(c.action) /\ c.evt \in Range(chan) /\ c.evt \notin queue

\* C38: whenever the event loop has exited the queue is empty: the assertion
\* after the loop holds.
C38_ExitsWithEmptyQueue ==
    /\ pc # "panicked"
    /\ pc \in {"exit", "done"} => queue = {}

\* C38, witness: the loop has executed a wave and exited, the assertion held
C38_Witness == pc = "done" /\ waveLog # <<>>

\* C39: schedule_physical completes without error in every state of the
\* scheduler, also after the loop has timed out and the thread has ended.
C39_SchedulePhysicalCompletes == ppc # "panicked"

(***************************************************************************)
(* GlobalId: the id of the container and the local id of a component,      *)
(* packed in one unsigned integer.  The model keeps the layout (the local  *)
(* id in the low half, the container in the high half) on halves of IdBits *)
(* bits; the lengths given to id_range go beyond what a half can hold and  *)
(* stay far below the width of usize, as the number of components of a     *)
(* reactor does.                                                           *)
(***************************************************************************)
\* ReactionIdImpl::BITS, the width of each half
IdBits == 2

RECURSIVE Pow2(_)
Pow2(n) == IF n = 0 THEN 1 ELSE 2 * Pow2(n - 1)

\* ReactionIdImpl::MAX, 0xffff
MaxLocal == Pow2(IdBits) - 1

\* the values of ReactorIdImpl and ReactionIdImpl
Halves == 0..MaxLocal

\* GlobalIdImpl: the values of _raw
Raws == 0..(Pow2(2 * IdBits) - 1)

\* the lengths id_range is called with
Lengths == 0..(MaxLocal + 2)

\* a | b
RECURSIVE BitOr(_, _)
BitOr(a, b) ==
    IF a = 0 /\ b = 0 THEN 0
    ELSE (IF a % 2 = 1 \/ b % 2 = 1 THEN 1 ELSE 0) + 2 * BitOr(a \div 2, b \div 2)

\* a & b
RECURSIVE BitAnd(_, _)
BitAnd(a, b) ==
    IF a = 0 \/ b = 0 THEN 0
    ELSE (IF a % 2 = 1 /\ b % 2 = 1 THEN 1 ELSE 0) + 2 * BitAnd(a \div 2, b \div 2)

\* GlobalId::new: (container as GlobalIdImpl) << BITS | (local as GlobalIdImpl)
GlobalIdNew(container, local) ==
    BitOr((container * Pow2(IdBits)) % Pow2(2 * IdBits), local)

\* GlobalId::container: (_raw >> 16) as u16
Container(raw) == (raw \div Pow2(IdBits)) % Pow2(IdBits)

\* GlobalId::local: (_raw & 0xffff) as u16
Local(raw) == BitAnd(raw, MaxLocal) % Pow2(IdBits)

\* a conversion that accepts every value
TryFromAlwaysOk(n) == TRUE

\* ReactionIdImpl::try_from(n) is Ok
TryFromOk(n) == n <= MaxLocal

\* what a call returned: a panic, or ids
Panicked(op, from, len) ==
    Some([op |-> op, from |-> from, len |-> len, panic |-> TRUE, start |-> 0, end |-> 0])

Returned(op, from, len, start, end) ==
    Some([op |-> op, from |-> from, len |-> len, panic |-> FALSE,
          start |-> start, end |-> end])

IdsInit ==
    /\ RtIdle
    /\ GraphIdle
    /\ PortsIdle
    /\ AsmIdle
    /\ gid \in {GlobalIdNew(c, l) : c \in Halves, l \in Halves}
    /\ idOut = None

\* GlobalId::new(container, local)
IdNew ==
    /\ \E c \in Halves : \E l \in Halves :
          /\ gid' = GlobalIdNew(c, l)
          /\ idOut' = Returned("new", gid, 0, c, l)
    /\ UNCHANGED <<rtVars, graphVars, portVars, asmVars>>

\* next_id: the assertion on the local id, then _raw + 1; the caller goes
\* on with the id it got
NextId ==
    /\ IF Local(gid) = MaxLocal
       THEN /\ idOut' = Panicked("next_id", gid, 1)
            /\ UNCHANGED gid
       ELSE /\ gid' = (gid + 1) % Pow2(2 * IdBits)
            /\ idOut' = Returned("next_id", gid, 1, gid, (gid + 1) % Pow2(2 * IdBits))
    /\ UNCHANGED <<rtVars, graphVars, portVars, asmVars>>

\* id_range(len): the conversion of local + len, then the range from self to
\* _raw + len
IdRange ==
    /\ \E len \in Lengths :
          idOut' = IF TryFromOk(Local(gid) + len)
                   THEN Returned("id_range", gid, len, gid,
                                 (gid + len) % Pow2(2 * IdBits))
                   ELSE Panicked("id_range", gid, len)
    /\ UNCHANGED <<gid, rtVars, graphVars, portVars, asmVars>>

IdsNext ==
    \/ IdNew
    \/ NextId
    \/ IdRange

SpecIds == IdsInit /\ [][IdsNext]_vars

\* the ids of a Range<GlobalId>, by the order of GlobalId (that of _raw)
IdsOf(start, end) == {x \in Raws : start <= x /\ x < end}

\* C40: a GlobalId packs the pair (container, local): container() and
\* local() return the pair new was given; next_id returns the id of the same
\* container with local + 1; id_range(n) returns exactly the n consecutive
\* ids from the receiver on, all of the receiver's container; next_id
\* panics when local + 1, and id_range when local + n, the local part of the
\* range's end, does not fit in the half, instead of carrying into the
\* container's bits.
C40_GlobalIdPacking ==
    /\ GlobalIdNew(Container(gid), Local(gid)) = gid
    /\ idOut # None =>
          LET o == idOut[1]
              c == Container(o.from)
              l == Local(o.from)
          IN  CASE o.op = "new" ->
                     Container(gid) = o.start /\ Local(gid) = o.end
                [] o.op = "next_id" ->
                     IF l + 1 > MaxLocal THEN o.panic
                     ELSE /\ ~o.panic
                          /\ Container(o.end) = c
                          /\ Local(o.end) = l + 1
                [] o.op = "id_range" ->
                     IF l + o.len > MaxLocal THEN o.panic
                     ELSE /\ ~o.panic
                          /\ IdsOf(o.start, o.end) =
                                 {GlobalIdNew(c, l + i) : i \in 0..(o.len - 1)}
                          /\ Cardinality(IdsOf(o.start, o.end)) = o.len

\* C40, witness: id_range has returned a range of several ids that ends
\* with the last local id of a container that is not the first
C40_Witness ==
    /\ idOut # None
    /\ idOut[1].op = "id_range"
    /\ ~idOut[1].panic
    /\ idOut[1].len > 1
    /\ Container(idOut[1].from) > 0
    /\ Local(idOut[1].from) + idOut[1].len = MaxLocal

============================================================================
